---- MODULE Spec2Model ----
(***************************************************************************)
(* The hiisi simulator (hiisi-simulator/src/main.rs): a client that, over  *)
(* one socket and a callback-driven I/O loop, repeatedly builds a request, *)
(* draws a fault from a seeded generator, sends either the request or      *)
(* noise, receives the response and asserts its status.                    *)
(*                                                                         *)
(* Every per-run variable is a function over Runs, so that two runs        *)
(* started from the same seed can be stepped side by side (SpecPair).      *)
(* Spec steps run 1 only.                                                  *)
(***************************************************************************)
EXTENDS Integers, Sequences, FiniteSets, TLC

\* ---------------------------------------------------------------- bounds
MaxCycles == 3      \* calls of perform_client_req per run
MaxTicks == 7       \* calls of io.run_once per run
MaxSeed == 3        \* SEED values 0..MaxSeed
MaxBodyLen == 11    \* byte length of the serialized protocol body

Runs == 1..2
Seeds == 0..MaxSeed

\* ------------------------------------------------------ program constants
\* "POST /v2/pipeline HTTP/1.1\r\nHost: "
RequestLine ==
  <<80, 79, 83, 84, 32, 47, 118, 50, 47, 112, 105, 112, 101, 108, 105, 110,
    101, 32, 72, 84, 84, 80, 47, 49, 46, 49, 13, 10, 72, 111, 115, 116, 58, 32>>

\* "test.localhost"
TEST_DATABASE_HOST ==
  <<116, 101, 115, 116, 46, 108, 111, 99, 97, 108, 104, 111, 115, 116>>

\* "\r\nContent-Length: "
ContentLengthName ==
  <<13, 10, 67, 111, 110, 116, 101, 110, 116, 45, 76, 101, 110, 103, 116,
    104, 58, 32>>

\* "\r\n\r\n"
HeaderEnd == <<13, 10, 13, 10>>

\* b"FUZZ FUZZ FUZZ"
bad_request == <<70, 85, 90, 90, 32, 70, 85, 90, 90, 32, 70, 85, 90, 90>>

\* enum PerformClientReqFault
PerformClientReqFault == {"Normal", "Fuzz"}

\* the statuses the two receive continuations compare against
StatusOk == 200
StatusBadRequest == 400

\* ------------------------------------------------------ the seeded generator
\* The generator's output is scaled from u64 to 0..WordRange-1; gen_bool(0.9)
\* compares one output value against 0.9 of the range.
WordRange == 10
NormalBelow == 9
WordsPerDraw == 1

\* ChaCha8Rng::seed_from_u64(seed): the pos-th output value of the stream of
\* seed, a fixed function of (seed, pos).
ChaChaWord(s, pos) == (s + 9 * pos + 8) % WordRange

\* rng.gen_bool(0.9): one output value is consumed, whatever the result.
gen_bool(s, pos) ==
  [value |-> ChaChaWord(s, pos) < NormalBelow, pos |-> pos + WordsPerDraw]

\* Variant: a fuzz result draws a second value.
gen_perform_client_req_fault_redraw(s, pos) ==
  LET b == gen_bool(s, pos)
  IN  [fault |-> IF b.value THEN "Normal" ELSE "Fuzz",
       pos |-> IF b.value THEN b.pos ELSE gen_bool(s, b.pos).pos]

gen_perform_client_req_fault(s, pos) ==
  LET b == gen_bool(s, pos)
  IN  [fault |-> IF b.value THEN "Normal" ELSE "Fuzz", pos |-> b.pos]

\* ------------------------------------------------------ the request builder
RECURSIVE FormatUsize(_)
\* format!("{}", n) of a usize: its decimal digits, most significant first
FormatUsize(n) ==
  IF n < 10 THEN <<48 + n>> ELSE FormatUsize(n \div 10) \o <<48 + (n % 10)>>

\* format!("POST /v2/pipeline HTTP/1.1\r\nHost: {}\r\nContent-Length: {}\r\n\r\n", ..)
http_header(host, len) ==
  RequestLine \o host \o ContentLengthName \o FormatUsize(len) \o HeaderEnd

\* hiisi::proto::format_msg(&req) of the fixed "SELECT 1" pipeline request:
\* a byte string fixed by the request; its bytes are those of a serialization
\* of length len.
format_msg(len) == [i \in 1..len |-> 97 + (i % 5)]

ProtoBodies == {format_msg(l) : l \in 0..MaxBodyLen}

\* Variant: the length header counts one byte more than the body has.
http_req_off_by_one(buf) == http_header(TEST_DATABASE_HOST, Len(buf) + 1) \o buf

\* http_req after the two extend_from_slice calls
http_req(buf) == http_header(TEST_DATABASE_HOST, Len(buf)) \o buf

\* ------------------------------------------------------ the response
\* What the receive continuation sees of the delivered bytes: the outcome of
\* httparse's Response::parse (error, partial, or complete with a status
\* code) and whether the bytes after the headers are valid UTF-8.
Codes == {200, 400, 500}

NoResponse == [parse |-> "none", code |-> 0, utf8 |-> TRUE]

Responses ==
  [parse : {"complete"}, code : Codes, utf8 : BOOLEAN]
    \cup {[parse |-> "partial", code |-> 0, utf8 |-> TRUE],
          [parse |-> "error", code |-> 0, utf8 |-> TRUE]}

\* ------------------------------------------------------ state
VARIABLES
  live,      \* the runs that are stepped
  seed,      \* the SEED both runs were started with
  body,      \* the serialization format_msg returns for the fixed request
  startup,   \* per run: the calls main has made before its loop, in order
  pending,   \* per run: the scheduler's table of operations registered on the
             \* client's behalf
  fired,     \* per run: the operations whose continuation run_once has invoked
  ticks,     \* per run: calls of io.run_once so far
  cycles,    \* per run: calls of perform_client_req so far
  rngPos,    \* per run: output values consumed from user_data.rng
  sends,     \* per run: history of send_client_msg calls
  checked,   \* per run: history of status comparisons in the receive continuations
  printed,   \* per run: what println! wrote
  delivered, \* per run: the response last handed to a receive continuation
  term       \* per run: "running", or how the process ended

vars ==
  <<live, seed, body, startup, pending, fired, ticks, cycles, rngPos, sends,
    checked, printed, delivered, term>>

\* ------------------------------------------------------ the scheduler (IO)
Op(kind, sock, cb, buf, n) ==
  [kind |-> kind, sock |-> sock, cb |-> cb, buf |-> buf, n |-> n]

\* io.connect / io.send / io.recv: register one operation with its continuation
io_connect(io, sock, cb) == Append(io, Op("connect", sock, cb, <<>>, 0))
io_send(io, sock, buf, n, cb) == Append(io, Op("send", sock, cb, buf, n))
io_recv(io, sock, cb) == Append(io, Op("recv", sock, cb, <<>>, 0))

\* the table without its i-th registration
Remove(io, i) == SubSeq(io, 1, i - 1) \o SubSeq(io, i + 1, Len(io))

\* what main does before its loop: create_database, the two Socket::new,
\* serve, io.connect
StartupCalls == <<"create_database", "socket_new", "serve", "connect">>

\* the entry of the fired history for a completed operation
Fired(op) == [kind |-> op.kind, sock |-> op.sock, cb |-> op.cb]

\* main is in its loop and the process has not ended
Running(r) == r \in live /\ term[r] = "running" /\ startup[r] = StartupCalls

Init ==
  /\ live = {1}
  /\ seed \in Seeds
  /\ body \in ProtoBodies
  /\ pending = [r \in Runs |-> io_connect(<<>>, "client_sock", "on_client_connect")]
  /\ startup = [r \in Runs |-> StartupCalls]
  /\ fired = [r \in Runs |-> <<>>]
  /\ ticks = [r \in Runs |-> 0]
  /\ cycles = [r \in Runs |-> 0]
  /\ rngPos = [r \in Runs |-> 0]
  /\ sends = [r \in Runs |-> <<>>]
  /\ checked = [r \in Runs |-> <<>>]
  /\ printed = [r \in Runs |-> <<>>]
  /\ delivered = [r \in Runs |-> NoResponse]
  /\ term = [r \in Runs |-> "running"]


\* The serializations the pair of runs is checked with: the shortest and the
\* longest. Both runs build their requests from the same one.
PairBodies == {format_msg(0), format_msg(MaxBodyLen)}

\* Both runs are started from the same seed and stepped side by side.
InitPair ==
  /\ live = Runs
  /\ seed \in Seeds
  /\ body \in PairBodies
  /\ pending = [r \in Runs |-> io_connect(<<>>, "client_sock", "on_client_connect")]
  /\ startup = [r \in Runs |-> StartupCalls]
  /\ fired = [r \in Runs |-> <<>>]
  /\ ticks = [r \in Runs |-> 0]
  /\ cycles = [r \in Runs |-> 0]
  /\ rngPos = [r \in Runs |-> 0]
  /\ sends = [r \in Runs |-> <<>>]
  /\ checked = [r \in Runs |-> <<>>]
  /\ printed = [r \in Runs |-> <<>>]
  /\ delivered = [r \in Runs |-> NoResponse]
  /\ term = [r \in Runs |-> "running"]

\* ------------------------------------------------------ the driver
\* One entry of the sends history: the fault drawn, the request send_client_msg
\* was given, and the buffer, length and continuation it gave to io.send.
SendCall(fault, req, buf, n, cb) ==
  [fault |-> fault, req |-> req, buf |-> buf, n |-> n, cb |-> cb]

\* Variant: the draw depends on how many ticks the run has taken.
send_client_msg_timed(r, io, sock, buf, n) ==
  LET g == gen_perform_client_req_fault(seed, rngPos[r] + ticks[r])
  IN  /\ rngPos' = [rngPos EXCEPT ![r] = @ + WordsPerDraw]
      /\ IF g.fault = "Normal"
         THEN /\ pending' = [pending EXCEPT ![r] = io_send(io, sock, buf, n, "on_client_send_normal")]
              /\ sends' = [sends EXCEPT ![r] =
                   Append(@, SendCall(g.fault, buf, buf, n, "on_client_send_normal"))]
         ELSE /\ pending' = [pending EXCEPT ![r] = io_send(io, sock, bad_request, n, "on_client_send_fuzz")]
              /\ sends' = [sends EXCEPT ![r] =
                   Append(@, SendCall(g.fault, buf, bad_request, n, "on_client_send_fuzz"))]

\* Variant: the fuzz branch puts the noise in front of the request.
send_client_msg_prepend(r, io, sock, buf, n) ==
  LET g == gen_perform_client_req_fault(seed, rngPos[r])
  IN  /\ rngPos' = [rngPos EXCEPT ![r] = g.pos]
      /\ IF g.fault = "Normal"
         THEN /\ pending' = [pending EXCEPT ![r] = io_send(io, sock, buf, n, "on_client_send_normal")]
              /\ sends' = [sends EXCEPT ![r] =
                   Append(@, SendCall(g.fault, buf, buf, n, "on_client_send_normal"))]
         ELSE /\ pending' = [pending EXCEPT ![r] =
                   io_send(io, sock, bad_request \o buf, n, "on_client_send_fuzz")]
              /\ sends' = [sends EXCEPT ![r] =
                   Append(@, SendCall(g.fault, buf, bad_request \o buf, n, "on_client_send_fuzz"))]

\* Variant: the fuzz branch sends nothing at all.
send_client_msg_empty(r, io, sock, buf, n) ==
  LET g == gen_perform_client_req_fault(seed, rngPos[r])
  IN  /\ rngPos' = [rngPos EXCEPT ![r] = g.pos]
      /\ IF g.fault = "Normal"
         THEN /\ pending' = [pending EXCEPT ![r] = io_send(io, sock, buf, n, "on_client_send_normal")]
              /\ sends' = [sends EXCEPT ![r] =
                   Append(@, SendCall(g.fault, buf, buf, n, "on_client_send_normal"))]
         ELSE /\ pending' = [pending EXCEPT ![r] = io_send(io, sock, <<>>, 0, "on_client_send_fuzz")]
              /\ sends' = [sends EXCEPT ![r] =
                   Append(@, SendCall(g.fault, buf, <<>>, 0, "on_client_send_fuzz"))]

send_client_msg(r, io, sock, buf, n) ==
  LET g == gen_perform_client_req_fault(seed, rngPos[r])
  IN  /\ rngPos' = [rngPos EXCEPT ![r] = g.pos]
      /\ IF g.fault = "Normal"
         THEN /\ pending' = [pending EXCEPT ![r] = io_send(io, sock, buf, n, "on_client_send_normal")]
              /\ sends' = [sends EXCEPT ![r] =
                   Append(@, SendCall(g.fault, buf, buf, n, "on_client_send_normal"))]
         ELSE /\ pending' = [pending EXCEPT ![r] = io_send(io, sock, bad_request, n, "on_client_send_fuzz")]
              /\ sends' = [sends EXCEPT ![r] =
                   Append(@, SendCall(g.fault, buf, bad_request, n, "on_client_send_fuzz"))]

perform_client_req(r, io, sock) ==
  LET buf == body
      req == http_req(buf)
      n == Len(req)
  IN  /\ cycles[r] < MaxCycles
      /\ cycles' = [cycles EXCEPT ![r] = @ + 1]
      /\ send_client_msg(r, io, sock, req, n)

on_client_connect(r, io, sock) ==
  /\ perform_client_req(r, io, sock)
  /\ UNCHANGED <<checked, printed, term>>

\* Variant: the send continuation starts the next cycle without a receive.
on_client_send_normal_eager(r, io, sock) ==
  /\ perform_client_req(r, io, sock)
  /\ UNCHANGED <<checked, printed, term>>

\* Variant: the send continuation registers both receive continuations.
on_client_send_normal_twice(r, io, sock) ==
  /\ pending' = [pending EXCEPT ![r] =
       io_recv(io_recv(io, sock, "on_client_recv_normal"), sock, "on_client_recv_fuzz")]
  /\ UNCHANGED <<cycles, rngPos, sends, checked, printed, term>>

on_client_send_normal(r, io, sock) ==
  /\ pending' = [pending EXCEPT ![r] = io_recv(io, sock, "on_client_recv_normal")]
  /\ UNCHANGED <<cycles, rngPos, sends, checked, printed, term>>

\* Variant: the receive is registered on the listening socket.
on_client_send_fuzz_server_sock(r, io, sock) ==
  /\ pending' = [pending EXCEPT ![r] = io_recv(io, "server_sock", "on_client_recv_fuzz")]
  /\ UNCHANGED <<cycles, rngPos, sends, checked, printed, term>>

\* Variant: the fuzz send continuation registers the normal receive continuation.
on_client_send_fuzz_swapped(r, io, sock) ==
  /\ pending' = [pending EXCEPT ![r] = io_recv(io, sock, "on_client_recv_normal")]
  /\ UNCHANGED <<cycles, rngPos, sends, checked, printed, term>>

on_client_send_fuzz(r, io, sock) ==
  /\ pending' = [pending EXCEPT ![r] = io_recv(io, sock, "on_client_recv_fuzz")]
  /\ UNCHANGED <<cycles, rngPos, sends, checked, printed, term>>

\* The process ends inside a continuation: nothing it had not yet done happens.
Panic(r, io, how) ==
  /\ term' = [term EXCEPT ![r] = how]
  /\ pending' = [pending EXCEPT ![r] = io]
  /\ UNCHANGED <<cycles, rngPos, sends>>

Comparison(r, expected, got) ==
  [cycle |-> cycles[r], expected |-> expected, got |-> got]

\* Variant: after a 200 the continuation returns without starting a cycle.
on_client_recv_normal_stops(r, io, sock, resp) ==
  IF resp.parse = "error"
  THEN Panic(r, io, "unwrap_parse_error") /\ UNCHANGED <<checked, printed>>
  ELSE IF resp.parse = "partial"
  THEN Panic(r, io, "unwrap_partial") /\ UNCHANGED <<checked, printed>>
  ELSE /\ checked' = [checked EXCEPT ![r] = Append(@, Comparison(r, StatusOk, resp.code))]
       /\ IF resp.code # StatusOk
          THEN IF ~resp.utf8
               THEN Panic(r, io, "unwrap_utf8") /\ UNCHANGED printed
               ELSE /\ printed' = [printed EXCEPT ![r] = Append(@, resp)]
                    /\ Panic(r, io, "assert_eq")
          ELSE /\ pending' = [pending EXCEPT ![r] = io]
               /\ UNCHANGED <<cycles, rngPos, sends, printed, term>>

on_client_recv_normal(r, io, sock, resp) ==
  IF resp.parse = "error"
  THEN \* resp.parse(buf).unwrap() on Err
       Panic(r, io, "unwrap_parse_error") /\ UNCHANGED <<checked, printed>>
  ELSE IF resp.parse = "partial"
  THEN \* .unwrap() on Status::Partial
       Panic(r, io, "unwrap_partial") /\ UNCHANGED <<checked, printed>>
  ELSE /\ checked' = [checked EXCEPT ![r] = Append(@, Comparison(r, StatusOk, resp.code))]
       /\ IF resp.code # StatusOk
          THEN IF ~resp.utf8
               THEN \* std::str::from_utf8(..).unwrap() on Err
                    Panic(r, io, "unwrap_utf8") /\ UNCHANGED printed
               ELSE /\ printed' = [printed EXCEPT ![r] = Append(@, resp)]
                    /\ Panic(r, io, "assert_eq")
          ELSE /\ perform_client_req(r, io, sock)
               /\ UNCHANGED <<printed, term>>

\* Variant: an incomplete response is skipped and the next cycle starts.
on_client_recv_fuzz_lenient(r, io, sock, resp) ==
  IF resp.parse = "error"
  THEN Panic(r, io, "unwrap_parse_error") /\ UNCHANGED <<checked, printed>>
  ELSE IF resp.parse = "partial"
  THEN perform_client_req(r, io, sock) /\ UNCHANGED <<checked, printed, term>>
  ELSE /\ checked' = [checked EXCEPT ![r] = Append(@, Comparison(r, StatusBadRequest, resp.code))]
       /\ IF resp.code # StatusBadRequest
          THEN IF ~resp.utf8
               THEN Panic(r, io, "unwrap_utf8") /\ UNCHANGED printed
               ELSE /\ printed' = [printed EXCEPT ![r] = Append(@, resp)]
                    /\ Panic(r, io, "assert_eq")
          ELSE /\ perform_client_req(r, io, sock)
               /\ UNCHANGED <<printed, term>>

on_client_recv_fuzz(r, io, sock, resp) ==
  IF resp.parse = "error"
  THEN Panic(r, io, "unwrap_parse_error") /\ UNCHANGED <<checked, printed>>
  ELSE IF resp.parse = "partial"
  THEN Panic(r, io, "unwrap_partial") /\ UNCHANGED <<checked, printed>>
  ELSE /\ checked' = [checked EXCEPT ![r] = Append(@, Comparison(r, StatusBadRequest, resp.code))]
       /\ IF resp.code # StatusBadRequest
          THEN IF ~resp.utf8
               THEN Panic(r, io, "unwrap_utf8") /\ UNCHANGED printed
               ELSE /\ printed' = [printed EXCEPT ![r] = Append(@, resp)]
                    /\ Panic(r, io, "assert_eq")
          ELSE /\ perform_client_req(r, io, sock)
               /\ UNCHANGED <<printed, term>>

\* ------------------------------------------------------ io.run_once
\* One tick: the poll finds nothing ready, or finds a registered operation
\* ready, removes its registration and invokes its continuation, or meets an
\* OS error on it.
CanTick(r) == Running(r) /\ ticks[r] < MaxTicks

Ticked(r) == ticks' = [ticks EXCEPT ![r] = @ + 1]

OpsOf(r, kind) == {i \in DOMAIN pending[r] : pending[r][i].kind = kind}

Ready(r, kind, cb) ==
  {i \in DOMAIN pending[r] : pending[r][i].kind = kind /\ pending[r][i].cb = cb}

RunOnceIdle(r) ==
  /\ CanTick(r)
  /\ Ticked(r)
  /\ UNCHANGED <<live, seed, body, startup, pending, fired, cycles, rngPos, sends,
                 checked, printed, delivered, term>>

RunOnceConnect(r) ==
  /\ CanTick(r)
  /\ \E i \in Ready(r, "connect", "on_client_connect") :
       /\ on_client_connect(r, Remove(pending[r], i), pending[r][i].sock)
       /\ fired' = [fired EXCEPT ![r] = Append(@, Fired(pending[r][i]))]
  /\ Ticked(r)
  /\ UNCHANGED <<live, seed, body, startup, delivered>>

\* Variant: the tick invokes the send continuation and keeps the registration.
RunOnceSendNormal_keeps(r) ==
  /\ CanTick(r)
  /\ \E i \in Ready(r, "send", "on_client_send_normal") :
       /\ on_client_send_normal(r, pending[r], pending[r][i].sock)
       /\ fired' = [fired EXCEPT ![r] = Append(@, Fired(pending[r][i]))]
  /\ Ticked(r)
  /\ UNCHANGED <<live, seed, body, startup, delivered>>

RunOnceSendNormal(r) ==
  /\ CanTick(r)
  /\ \E i \in Ready(r, "send", "on_client_send_normal") :
       /\ on_client_send_normal(r, Remove(pending[r], i), pending[r][i].sock)
       /\ fired' = [fired EXCEPT ![r] = Append(@, Fired(pending[r][i]))]
  /\ Ticked(r)
  /\ UNCHANGED <<live, seed, body, startup, delivered>>

\* Variant: the tick that invokes the send continuation completes the receive
\* it registers before that continuation has returned, with no data yet.
RunOnceSendFuzz_inline(r) ==
  /\ CanTick(r)
  /\ \E i \in Ready(r, "send", "on_client_send_fuzz") :
       LET none == [parse |-> "partial", code |-> 0, utf8 |-> TRUE]
           recv == Op("recv", pending[r][i].sock, "on_client_recv_fuzz", <<>>, 0)
       IN  /\ on_client_recv_fuzz(r, Remove(pending[r], i), pending[r][i].sock, none)
           /\ delivered' = [delivered EXCEPT ![r] = none]
           /\ fired' = [fired EXCEPT ![r] =
                Append(Append(@, Fired(pending[r][i])), Fired(recv))]
  /\ Ticked(r)
  /\ UNCHANGED <<live, seed, body, startup>>

RunOnceSendFuzz(r) ==
  /\ CanTick(r)
  /\ \E i \in Ready(r, "send", "on_client_send_fuzz") :
       /\ on_client_send_fuzz(r, Remove(pending[r], i), pending[r][i].sock)
       /\ fired' = [fired EXCEPT ![r] = Append(@, Fired(pending[r][i]))]
  /\ Ticked(r)
  /\ UNCHANGED <<live, seed, body, startup, delivered>>

RunOnceRecvNormal(r) ==
  /\ CanTick(r)
  /\ \E i \in Ready(r, "recv", "on_client_recv_normal") : \E resp \in Responses :
       /\ on_client_recv_normal(r, Remove(pending[r], i), pending[r][i].sock, resp)
       /\ delivered' = [delivered EXCEPT ![r] = resp]
       /\ fired' = [fired EXCEPT ![r] = Append(@, Fired(pending[r][i]))]
  /\ Ticked(r)
  /\ UNCHANGED <<live, seed, body, startup>>

RunOnceRecvFuzz(r) ==
  /\ CanTick(r)
  /\ \E i \in Ready(r, "recv", "on_client_recv_fuzz") : \E resp \in Responses :
       /\ on_client_recv_fuzz(r, Remove(pending[r], i), pending[r][i].sock, resp)
       /\ delivered' = [delivered EXCEPT ![r] = resp]
       /\ fired' = [fired EXCEPT ![r] = Append(@, Fired(pending[r][i]))]
  /\ Ticked(r)
  /\ UNCHANGED <<live, seed, body, startup>>

RunOnceOsError(r) ==
  /\ CanTick(r)
  /\ \E i \in DOMAIN pending[r] :
       /\ term' = [term EXCEPT ![r] = "os_error"]
       /\ pending' = [pending EXCEPT ![r] = Remove(pending[r], i)]
  /\ Ticked(r)
  /\ UNCHANGED <<live, seed, body, startup, fired, cycles, rngPos, sends, checked,
                 printed, delivered>>

Next ==
  \E r \in Runs :
    \/ RunOnceIdle(r)
    \/ RunOnceConnect(r)
    \/ RunOnceSendNormal(r)
    \/ RunOnceSendFuzz(r)
    \/ RunOnceRecvNormal(r)
    \/ RunOnceRecvFuzz(r)
    \/ RunOnceOsError(r)

Spec == Init /\ [][Next]_vars

SpecPair == InitPair /\ [][Next]_vars


\* ------------------------------------------------------ main before its loop
\* The state when main is entered: nothing called, nothing registered.
InitMain ==
  /\ live = {1}
  /\ seed \in Seeds
  /\ body \in ProtoBodies
  /\ startup = [r \in Runs |-> <<>>]
  /\ pending = [r \in Runs |-> <<>>]
  /\ fired = [r \in Runs |-> <<>>]
  /\ ticks = [r \in Runs |-> 0]
  /\ cycles = [r \in Runs |-> 0]
  /\ rngPos = [r \in Runs |-> 0]
  /\ sends = [r \in Runs |-> <<>>]
  /\ checked = [r \in Runs |-> <<>>]
  /\ printed = [r \in Runs |-> <<>>]
  /\ delivered = [r \in Runs |-> NoResponse]
  /\ term = [r \in Runs |-> "running"]

\* main has made exactly the calls done and the process has not ended
MainAt(r, done) == r \in live /\ term[r] = "running" /\ startup[r] = done

\* a call of main returned: it is entered in startup
Called(r, call) == startup' = [startup EXCEPT ![r] = Append(@, call)]

\* a call of main failed: the failure is entered in startup, and the unwrap
\* (or the callee) ends the process
CallFailed(r, call, how) ==
  /\ startup' = [startup EXCEPT ![r] = Append(@, call)]
  /\ term' = [term EXCEPT ![r] = how]

\* Variant: the result of create_database is dropped instead of unwrapped.
MainCreateDatabase_ignored(r) ==
  /\ MainAt(r, <<>>)
  /\ \E ok \in BOOLEAN :
       IF ok THEN Called(r, "create_database")
       ELSE Called(r, "create_database_err")
  /\ UNCHANGED <<live, seed, body, pending, fired, ticks, cycles, rngPos, sends,
                 checked, printed, delivered, term>>

\* manager.create_database(TEST_DATABASE_NAME).unwrap()
MainCreateDatabase(r) ==
  /\ MainAt(r, <<>>)
  /\ \E ok \in BOOLEAN :
       IF ok THEN Called(r, "create_database") /\ UNCHANGED term
       ELSE CallFailed(r, "create_database_err", "unwrap_create_database")
  /\ UNCHANGED <<live, seed, body, pending, fired, ticks, cycles, rngPos, sends,
                 checked, printed, delivered>>

\* the two Socket::new(..).unwrap()
MainSocketNew(r) ==
  /\ MainAt(r, <<"create_database">>)
  /\ \E ok \in BOOLEAN :
       IF ok THEN Called(r, "socket_new") /\ UNCHANGED term
       ELSE CallFailed(r, "socket_new_err", "unwrap_socket_new")
  /\ UNCHANGED <<live, seed, body, pending, fired, ticks, cycles, rngPos, sends,
                 checked, printed, delivered>>

\* hiisi::server::serve(&mut io, server_sock, addr): binds and starts
\* accepting, or fails to bind
MainServe(r) ==
  /\ MainAt(r, <<"create_database", "socket_new">>)
  /\ \E ok \in BOOLEAN :
       IF ok THEN Called(r, "serve") /\ UNCHANGED term
       ELSE CallFailed(r, "serve_err", "bind_failed")
  /\ UNCHANGED <<live, seed, body, pending, fired, ticks, cycles, rngPos, sends,
                 checked, printed, delivered>>

\* io.connect(client_sock, addr, on_client_connect)
MainConnect(r) ==
  /\ MainAt(r, <<"create_database", "socket_new", "serve">>)
  /\ Called(r, "connect")
  /\ pending' = [pending EXCEPT ![r] =
       io_connect(@, "client_sock", "on_client_connect")]
  /\ UNCHANGED <<live, seed, body, fired, ticks, cycles, rngPos, sends, checked,
                 printed, delivered, term>>

NextMain ==
  \E r \in Runs :
    \/ MainCreateDatabase(r)
    \/ MainSocketNew(r)
    \/ MainServe(r)
    \/ MainConnect(r)
    \/ RunOnceIdle(r)
    \/ RunOnceConnect(r)
    \/ RunOnceSendNormal(r)
    \/ RunOnceSendFuzz(r)
    \/ RunOnceRecvNormal(r)
    \/ RunOnceRecvFuzz(r)
    \/ RunOnceOsError(r)

SpecMain == InitMain /\ [][NextMain]_vars

\* ------------------------------------------------------ fair ticking
\* The loop of main calls run_once for ever. With a server that answers each
\* request with a complete response of the status its continuation expects
\* and no OS error, a registered operation whose completion the scheduler
\* promises is completed by some tick. A send is promised to complete once
\* its requested length n has been written from its buffer; a send whose
\* buffer is shorter than n may complete, and nothing promises that it does.
\* The tick counter stops counting at MaxTicks.
TickedSat(r) ==
  ticks' = [ticks EXCEPT ![r] = IF @ < MaxTicks THEN @ + 1 ELSE @]

Conforming(code) == {resp \in Responses : resp.parse = "complete" /\ resp.code = code}

SendsWritten(r) == {i \in OpsOf(r, "send") : pending[r][i].n <= Len(pending[r][i].buf)}
SendsShort(r) == {i \in OpsOf(r, "send") : pending[r][i].n > Len(pending[r][i].buf)}

\* the send continuation registered with an operation
on_sent(r, io, op) ==
  IF op.cb = "on_client_send_normal"
  THEN on_client_send_normal(r, io, op.sock)
  ELSE on_client_send_fuzz(r, io, op.sock)

LiveIdle(r) ==
  /\ CanTick(r)
  /\ Ticked(r)
  /\ UNCHANGED <<live, seed, body, startup, pending, fired, cycles, rngPos, sends,
                 checked, printed, delivered, term>>

LiveConnect(r) ==
  /\ Running(r)
  /\ \E i \in Ready(r, "connect", "on_client_connect") :
       /\ on_client_connect(r, Remove(pending[r], i), pending[r][i].sock)
       /\ fired' = [fired EXCEPT ![r] = Append(@, Fired(pending[r][i]))]
  /\ TickedSat(r)
  /\ UNCHANGED <<live, seed, body, startup, delivered>>

LiveSendWritten(r) ==
  /\ Running(r)
  /\ \E i \in SendsWritten(r) :
       /\ on_sent(r, Remove(pending[r], i), pending[r][i])
       /\ fired' = [fired EXCEPT ![r] = Append(@, Fired(pending[r][i]))]
  /\ TickedSat(r)
  /\ UNCHANGED <<live, seed, body, startup, delivered>>

LiveSendShort(r) ==
  /\ Running(r)
  /\ \E i \in SendsShort(r) :
       /\ on_sent(r, Remove(pending[r], i), pending[r][i])
       /\ fired' = [fired EXCEPT ![r] = Append(@, Fired(pending[r][i]))]
  /\ TickedSat(r)
  /\ UNCHANGED <<live, seed, body, startup, delivered>>

LiveRecvNormal(r) ==
  /\ Running(r)
  /\ \E i \in Ready(r, "recv", "on_client_recv_normal") : \E resp \in Conforming(200) :
       /\ on_client_recv_normal(r, Remove(pending[r], i), pending[r][i].sock, resp)
       /\ delivered' = [delivered EXCEPT ![r] = resp]
       /\ fired' = [fired EXCEPT ![r] = Append(@, Fired(pending[r][i]))]
  /\ TickedSat(r)
  /\ UNCHANGED <<live, seed, body, startup>>

LiveRecvFuzz(r) ==
  /\ Running(r)
  /\ \E i \in Ready(r, "recv", "on_client_recv_fuzz") : \E resp \in Conforming(400) :
       /\ on_client_recv_fuzz(r, Remove(pending[r], i), pending[r][i].sock, resp)
       /\ delivered' = [delivered EXCEPT ![r] = resp]
       /\ fired' = [fired EXCEPT ![r] = Append(@, Fired(pending[r][i]))]
  /\ TickedSat(r)
  /\ UNCHANGED <<live, seed, body, startup>>

NextLive ==
  \E r \in Runs :
    \/ LiveIdle(r)
    \/ LiveConnect(r)
    \/ LiveSendWritten(r)
    \/ LiveSendShort(r)
    \/ LiveRecvNormal(r)
    \/ LiveRecvFuzz(r)

FairTicking ==
  /\ WF_vars(LiveConnect(1))
  /\ WF_vars(LiveSendWritten(1))
  /\ WF_vars(LiveRecvNormal(1))
  /\ WF_vars(LiveRecvFuzz(1))

LiveSpec == Init /\ [][NextLive]_vars /\ FairTicking

\* ------------------------------------------------------ properties
\* the status a fault class is to be answered with
StatusFor(fault) == IF fault = "Normal" THEN 200 ELSE 400

\* the continuations a cycle of a fault class goes through
SendCbFor(fault) == IF fault = "Normal" THEN "on_client_send_normal" ELSE "on_client_send_fuzz"
RecvCbFor(fault) == IF fault = "Normal" THEN "on_client_recv_normal" ELSE "on_client_recv_fuzz"

Last(s) == s[Len(s)]

\* C1: every status comparison of a cycle expects the status of the fault
\* class drawn in that cycle (200 for Normal, 400 for Fuzz), and the send or
\* receive registered for the current cycle carries the continuation of the
\* class drawn in it.
C1_ExpectedStatusFollowsDraw ==
  \A r \in Runs :
    /\ \A k \in DOMAIN checked[r] :
         /\ checked[r][k].cycle \in DOMAIN sends[r]
         /\ checked[r][k].expected = StatusFor(sends[r][checked[r][k].cycle].fault)
    /\ \A i \in DOMAIN pending[r] :
         /\ pending[r][i].kind = "send" =>
              pending[r][i].cb = SendCbFor(sends[r][cycles[r]].fault)
         /\ pending[r][i].kind = "recv" =>
              pending[r][i].cb = RecvCbFor(sends[r][cycles[r]].fault)

\* a run has compared a Normal cycle against 200 and a Fuzz cycle against 400
C1_Witness ==
  \E j, k \in DOMAIN checked[1] :
    /\ sends[1][checked[1][j].cycle].fault = "Normal" /\ checked[1][j].expected = 200
    /\ sends[1][checked[1][k].cycle].fault = "Fuzz" /\ checked[1][k].expected = 400

\* C2: a comparison whose status differs from the expected one ends the run
\* by the assertion, with the parsed response printed, and is the last thing
\* the run did: no further cycle, draw or registration.
C2_MismatchPrintsThenAsserts ==
  \A r \in Runs : \A k \in DOMAIN checked[r] :
    checked[r][k].got # checked[r][k].expected =>
      /\ term[r] = "assert_eq"
      /\ printed[r] # <<>>
      /\ Last(printed[r]).code = checked[r][k].got
      /\ k = Len(checked[r])
      /\ cycles[r] = checked[r][k].cycle
      /\ Len(sends[r]) = cycles[r]
      /\ rngPos[r] = WordsPerDraw * cycles[r]
      /\ pending[r] = <<>>

\* C3: the values consumed from the generator are exactly one draw per call
\* of perform_client_req, one recorded fault per call, and a step that begins
\* no cycle leaves the generator where it was.
C3_OneDrawPerCycle ==
  /\ [](\A r \in Runs :
          /\ rngPos[r] = WordsPerDraw * cycles[r]
          /\ Len(sends[r]) = cycles[r])
  /\ [][\A r \in Runs : cycles'[r] = cycles[r] => rngPos'[r] = rngPos[r]]_vars

\* three cycles begun, one of them fuzzed, with idle ticks in between
C3_Witness ==
  /\ cycles[1] = 3
  /\ ticks[1] > 5
  /\ \E k \in DOMAIN sends[1] : sends[1][k].fault = "Fuzz"

\* C4: two runs from the same seed agree, at every cycle index both have
\* reached, on the fault drawn and on the buffer and length handed to send.
C4_SameSeedSameTrace ==
  \A k \in DOMAIN sends[1] \cap DOMAIN sends[2] :
    /\ sends[1][k].fault = sends[2][k].fault
    /\ sends[1][k].buf = sends[2][k].buf
    /\ sends[1][k].n = sends[2][k].n

\* both runs began two cycles, the second at different tick counts, one fuzzed
C4_Witness ==
  /\ cycles[1] = 2 /\ cycles[2] = 2
  /\ ticks[1] # ticks[2]
  /\ \E k \in DOMAIN sends[1] : sends[1][k].fault = "Fuzz"
  /\ \E k \in DOMAIN sends[1] : sends[1][k].fault = "Normal"

\* C5: the client socket never has two registered operations of one kind.
C5_NoDoubleRegistration ==
  \A r \in Runs : \A kind \in {"connect", "send", "recv"} :
    Cardinality(OpsOf(r, kind)) <= 1

\* a receive is registered in a cycle after the first: an earlier receive on
\* the socket has completed
C5_Witness ==
  /\ cycles[1] >= 2
  /\ OpsOf(1, "recv") # {}
  /\ checked[1] # <<>>

\* index of the first occurrence of pat in s, 0 when there is none
FirstIndexOf(s, pat) ==
  LET at == {i \in 1..(Len(s) - Len(pat) + 1) : SubSeq(s, i, i + Len(pat) - 1) = pat}
  IN  IF at = {} THEN 0 ELSE CHOOSE i \in at : \A j \in at : i <= j

RECURSIVE ParseUsize(_)
\* the number a string of decimal digits denotes
ParseUsize(digits) ==
  IF digits = <<>> THEN 0
  ELSE 10 * ParseUsize(SubSeq(digits, 1, Len(digits) - 1)) + (Last(digits) - 48)

\* what a reader of the transmitted bytes finds: the header up to and with
\* the blank line, the Content-Length value in it, and the bytes after it
HeaderLenOf(msg) == FirstIndexOf(msg, HeaderEnd) + Len(HeaderEnd) - 1
ContentLengthOf(msg) ==
  ParseUsize(SubSeq(msg,
                    FirstIndexOf(msg, ContentLengthName) + Len(ContentLengthName),
                    FirstIndexOf(msg, HeaderEnd) - 1))
BodyOf(msg) == SubSeq(msg, HeaderLenOf(msg) + 1, Len(msg))

\* C6: in every Normal cycle the Content-Length value in the transmitted
\* header is the byte length of the body that follows the header, that body
\* is the serialized request, and the length given to send is header length
\* plus body length.
C6_ContentLengthIsBodyLength ==
  \A r \in Runs : \A k \in DOMAIN sends[r] :
    sends[r][k].fault = "Normal" =>
      /\ FirstIndexOf(sends[r][k].buf, HeaderEnd) > 0
      /\ FirstIndexOf(sends[r][k].buf, ContentLengthName) > 0
      /\ ContentLengthOf(sends[r][k].buf) = Len(BodyOf(sends[r][k].buf))
      /\ BodyOf(sends[r][k].buf) = body
      /\ sends[r][k].n = HeaderLenOf(sends[r][k].buf) + Len(body)

\* two Normal cycles were sent with a body whose length has two digits
C6_Witness ==
  /\ Len(body) >= 10
  /\ \E j, k \in DOMAIN sends[1] :
       j < k /\ sends[1][j].fault = "Normal" /\ sends[1][k].fault = "Normal"

\* C7: the step in which a response is compared and matches the expected
\* status begins the next cycle in the same step (one more call of
\* perform_client_req, one more draw, a send registered with that cycle's
\* buffer) and leaves the run running.
C7_MatchStartsNextCycle ==
  [][\A r \in Runs :
       (/\ Len(checked'[r]) = Len(checked[r]) + 1
        /\ Last(checked'[r]).got = Last(checked'[r]).expected)
       => /\ cycles'[r] = cycles[r] + 1
          /\ Len(sends'[r]) = Len(sends[r]) + 1
          /\ rngPos'[r] = rngPos[r] + WordsPerDraw
          /\ term'[r] = "running"
          /\ \E i \in DOMAIN pending'[r] :
               /\ pending'[r][i].kind = "send"
               /\ pending'[r][i].buf = Last(sends'[r]).buf
               /\ pending'[r][i].cb = Last(sends'[r]).cb]_vars

\* a Normal cycle was answered with 200 and the next cycle's send is registered
C7_Witness ==
  /\ term[1] = "running"
  /\ checked[1] # <<>>
  /\ Last(checked[1]).expected = 200
  /\ Last(checked[1]).got = 200
  /\ cycles[1] = Last(checked[1]).cycle + 1
  /\ OpsOf(1, "send") # {}

\* C8: a Fuzz cycle hands send exactly the noise bytes, nothing of the built
\* request before, after or in place of them; a Normal cycle hands send the built request
\* itself; the built request is the header and the serialized body.
C8_FuzzReplacesWholeBuffer ==
  \A r \in Runs : \A k \in DOMAIN sends[r] :
    /\ sends[r][k].req = http_req(body)
    /\ sends[r][k].fault = "Fuzz" =>
         /\ sends[r][k].buf = bad_request
         /\ sends[r][k].buf # sends[r][k].req
         /\ FirstIndexOf(sends[r][k].buf, RequestLine) = 0
    /\ sends[r][k].fault = "Normal" => sends[r][k].buf = sends[r][k].req
    /\ \A i \in OpsOf(r, "send") : pending[r][i].buf = sends[r][cycles[r]].buf

\* a Fuzz cycle's send is registered
C8_Witness ==
  /\ sends[1] # <<>>
  /\ Last(sends[1]).fault = "Fuzz"
  /\ \E i \in OpsOf(1, "send") : pending[1][i].buf = bad_request

\* the classes the fault decision yields over the seeds and stream positions
DrawnClasses ==
  {gen_perform_client_req_fault(s, pos).fault : s \in Seeds, pos \in 0..MaxCycles}

\* C9 as stated: the decision can yield the class empty, and a cycle whose
\* draw is empty sends a zero-length request and expects 400.
C9_EmptyClassDrawn ==
  /\ "Empty" \in DrawnClasses
  /\ \A r \in Runs : \A k \in DOMAIN sends[r] :
       sends[r][k].fault = "Empty" =>
         /\ sends[r][k].buf = <<>>
         /\ sends[r][k].cb = SendCbFor("Fuzz")

\* C9 amended: the decision yields only Normal or Fuzz; no cycle hands send
\* a zero-length buffer or a zero length; the one faulty class, Fuzz, sends
\* the noise bytes through the continuations that expect 400.
C9_NoEmptyClass ==
  /\ DrawnClasses \subseteq PerformClientReqFault
  /\ \A r \in Runs : \A k \in DOMAIN sends[r] :
       /\ sends[r][k].fault \in PerformClientReqFault
       /\ sends[r][k].buf # <<>>
       /\ sends[r][k].n > 0
       /\ sends[r][k].fault # "Normal" =>
            /\ Len(sends[r][k].buf) = Len(bad_request)
            /\ sends[r][k].cb = "on_client_send_fuzz"
  /\ \A r \in Runs : \A k \in DOMAIN checked[r] :
       sends[r][checked[r][k].cycle].fault # "Normal" => checked[r][k].expected = 400

\* a faulty cycle was sent and its response compared against 400
C9_Witness ==
  \E k \in DOMAIN checked[1] :
    /\ sends[1][checked[1][k].cycle].fault # "Normal"
    /\ sends[1][checked[1][k].cycle].buf # <<>>
    /\ checked[1][k].expected = 400

\* C10: once a response that is not a complete status line plus headers was
\* delivered, the run has ended, the status of that cycle was not compared,
\* no cycle, draw or registration followed; and an ended run does nothing.
C10_MalformedResponseIsFatal ==
  /\ [](\A r \in Runs :
          delivered[r].parse \in {"error", "partial"} =>
            /\ term[r] \in {"unwrap_parse_error", "unwrap_partial"}
            /\ \A k \in DOMAIN checked[r] : checked[r][k].cycle < cycles[r]
            /\ Len(sends[r]) = cycles[r]
            /\ rngPos[r] = WordsPerDraw * cycles[r]
            /\ pending[r] = <<>>)
  /\ [][\A r \in Runs :
          term[r] # "running" =>
            /\ term'[r] = term[r]
            /\ cycles'[r] = cycles[r]
            /\ rngPos'[r] = rngPos[r]
            /\ sends'[r] = sends[r]
            /\ checked'[r] = checked[r]
            /\ pending'[r] = pending[r]]_vars

\* a Fuzz cycle's receive continuation was handed an incomplete response
C10_Witness ==
  /\ delivered[1].parse = "partial"
  /\ sends[1] # <<>>
  /\ Last(sends[1]).fault = "Fuzz"
  /\ term[1] # "running"


\* C11: the continuations fire in the order connect, then per cycle send and
\* receive; no request is built or sent before the connect continuation
\* fired; a receive is registered only once the send continuation of its
\* cycle fired; a comparison happens only in the receive continuation of its
\* cycle; cycle k is built only after cycle k-1 was compared and matched.
C11_PhaseOrder ==
  \A r \in Runs :
    /\ Len(sends[r]) = cycles[r]
    /\ cycles[r] = 0 =>
         /\ fired[r] = <<>>
         /\ OpsOf(r, "send") = {} /\ OpsOf(r, "recv") = {}
    /\ cycles[r] >= 1 =>
         /\ fired[r] # <<>>
         /\ fired[r][1].kind = "connect"
         /\ OpsOf(r, "connect") = {}
    /\ \A j \in 2..Len(fired[r]) :
         /\ (j \div 2) \in DOMAIN sends[r]
         /\ j % 2 = 0 =>
              /\ fired[r][j].kind = "send"
              /\ fired[r][j].cb = sends[r][j \div 2].cb
         /\ j % 2 = 1 =>
              /\ fired[r][j].kind = "recv"
              /\ fired[r][j].cb = RecvCbFor(sends[r][j \div 2].fault)
    /\ \A k \in DOMAIN checked[r] :
         /\ checked[r][k].cycle = k
         /\ Len(fired[r]) >= 2 * k + 1
    /\ \A k \in 2..cycles[r] :
         /\ (k - 1) \in DOMAIN checked[r]
         /\ checked[r][k - 1].got = checked[r][k - 1].expected
         /\ Len(fired[r]) >= 2 * k - 1
    /\ OpsOf(r, "send") # {} => Len(fired[r]) = 2 * cycles[r] - 1
    /\ OpsOf(r, "recv") # {} => Len(fired[r]) = 2 * cycles[r]

\* the third cycle is awaiting its response: connect and three sends and two
\* receives have fired
C11_Witness ==
  /\ cycles[1] = 3
  /\ OpsOf(1, "recv") # {}
  /\ Len(fired[1]) = 6
  /\ Len(checked[1]) = 2


\* C12: under fair ticking and a conforming server the run never ends and
\* always has an operation registered, every registered send is followed by
\* the receive of its cycle, and every cycle below the bound is followed by
\* the next one.
C12_NeverStuck ==
  /\ [](term[1] = "running" /\ pending[1] # <<>>)
  /\ \A k \in 1..MaxCycles :
       (cycles[1] = k /\ OpsOf(1, "send") # {}) ~> (cycles[1] = k /\ OpsOf(1, "recv") # {})
  /\ \A k \in 0..(MaxCycles - 1) :
       (cycles[1] = k) ~> (cycles[1] = k + 1)


\* the entries of a table or history that are of a kind
OfKind(s, kind) == {j \in DOMAIN s : s[j].kind = kind}
CountOf(s, kind) == Cardinality(OfKind(s, kind))

\* the operations the driver has registered so far, by kind: the connect of
\* main, one send per send_client_msg call, one receive per send continuation
Registered(r, kind) ==
  IF kind = "connect" THEN 1
  ELSE IF kind = "send" THEN Len(sends[r])
  ELSE CountOf(fired[r], "send")

\* C13: every registration is either still pending or has fired its
\* continuation once (or met an OS error): on_client_connect fires at most
\* once, the send and the receive continuation at most once per cycle; and a
\* tick that invokes a continuation invokes the one of an operation that was
\* registered, and removes that registration.
C13_FiresOncePerRegistration ==
  /\ [](\A r \in Runs : \A kind \in {"connect", "send", "recv"} :
          /\ CountOf(fired[r], kind) + CountOf(pending[r], kind) <= Registered(r, kind)
          /\ term[r] # "os_error" =>
               CountOf(fired[r], kind) + CountOf(pending[r], kind) = Registered(r, kind)
          /\ CountOf(fired[r], kind) <= IF kind = "connect" THEN 1 ELSE cycles[r])
  /\ [][\A r \in Runs :
          fired'[r] # fired[r] =>
            /\ Len(fired'[r]) = Len(fired[r]) + 1
            /\ SubSeq(fired'[r], 1, Len(fired[r])) = fired[r]
            /\ \E i \in DOMAIN pending[r] : Fired(pending[r][i]) = Last(fired'[r])
            /\ CountOf(pending'[r], Last(fired'[r]).kind)
                 = CountOf(pending[r], Last(fired'[r]).kind) - 1]_vars

\* connect, a send and a receive have fired and the next cycle's send is pending
C13_Witness ==
  /\ CountOf(fired[1], "connect") = 1
  /\ CountOf(fired[1], "send") = 1
  /\ CountOf(fired[1], "recv") = 1
  /\ CountOf(pending[1], "send") = 1
  /\ cycles[1] = 2


\* the operations a step registers for run r: a send per new send_client_msg
\* call, a receive per send continuation fired
NewlyRegistered(r) ==
  (Len(sends'[r]) - Len(sends[r]))
    + (CountOf(fired'[r], "send") - CountOf(fired[r], "send"))

IsPrefix(s, full) == Len(s) <= Len(full) /\ \A j \in DOMAIN s : s[j] = full[j]

StartupFailed(r) ==
  startup[r] # <<>> /\ Last(startup[r]) \in {"create_database_err", "socket_new_err", "serve_err"}

\* C15: main makes its calls once each and in the order create_database,
\* Socket::new, serve, connect; the client's connect is registered and the
\* first tick happens only after all of them returned; a failure of
\* create_database (or of a later startup call) ends the process with no
\* socket operation registered, no tick taken and no continuation run.
C15_StartupOrder ==
  \A r \in Runs :
    /\ ~StartupFailed(r) => IsPrefix(startup[r], StartupCalls)
    /\ StartupFailed(r) =>
         /\ IsPrefix(SubSeq(startup[r], 1, Len(startup[r]) - 1), StartupCalls)
         /\ Len(startup[r]) < Len(StartupCalls)
         /\ term[r] # "running"
         /\ pending[r] = <<>>
         /\ ticks[r] = 0
         /\ fired[r] = <<>>
         /\ sends[r] = <<>>
    /\ term[r] = "unwrap_create_database" => startup[r] = <<"create_database_err">>
    /\ pending[r] # <<>> => startup[r] = StartupCalls
    /\ (ticks[r] > 0 \/ fired[r] # <<>> \/ sends[r] # <<>>) => startup[r] = StartupCalls

\* the first tick was taken, after create_database, serve and connect
C15_Witness ==
  /\ startup[1] = StartupCalls
  /\ ticks[1] = 1
  /\ fired[1] # <<>>
  /\ fired[1][1].kind = "connect"


\* C16: every send_client_msg call hands io.send a length equal to the byte
\* length of the buffer it hands over in that call.
C16_LengthIsBufferLength ==
  \A r \in Runs :
    /\ \A k \in DOMAIN sends[r] : sends[r][k].n = Len(sends[r][k].buf)
    /\ \A i \in OpsOf(r, "send") : pending[r][i].n = Len(pending[r][i].buf)

\* how many times main has called io.connect
ConnectCalls(r) == Cardinality({j \in DOMAIN startup[r] : startup[r][j] = "connect"})

\* C17: io.connect is called at most once, by main; the only connect
\* registration is that one; every operation registered and every
\* continuation fired, in every cycle, is on the client socket.
C17_OneConnectionOneSocket ==
  \A r \in Runs :
    /\ ConnectCalls(r) <= 1
    /\ CountOf(fired[r], "connect") + CountOf(pending[r], "connect") <= ConnectCalls(r)
    /\ term[r] # "os_error" =>
         CountOf(fired[r], "connect") + CountOf(pending[r], "connect") = ConnectCalls(r)
    /\ \A i \in DOMAIN pending[r] : pending[r][i].sock = "client_sock"
    /\ \A j \in DOMAIN fired[r] : fired[r][j].sock = "client_sock"

\* a fuzzed cycle was answered with 400 and the next cycle's send is
\* registered on the client socket
C17_Witness ==
  /\ checked[1] # <<>>
  /\ Last(checked[1]).expected = 400
  /\ Last(checked[1]).got = 400
  /\ cycles[1] = Last(checked[1]).cycle + 1
  /\ \E i \in OpsOf(1, "send") : pending[1][i].sock = "client_sock"
  /\ CountOf(fired[1], "connect") = 1

====
